---------------------------- MODULE Spec2Model ----------------------------
(***************************************************************************)
(* A model of the hivemind-project core:                                   *)
(*   libs/genetic-algorithm/src/lib.rs  GeneticAlgorithm::evolve,          *)
(*                                      RouletteWheelSelection::select,    *)
(*                                      Chromosome, UniformCrossover       *)
(*   libs/neural-network/src/lib.rs     Network / Layer / Neuron: random   *)
(*                                      construction and propagation       *)
(*                                                                         *)
(* f32 values are modelled as integers (fixed point): a fitness, a gene,   *)
(* a bias, a weight or an input is a small integer.  A panic (assert!,     *)
(* expect, todo!) is an outcome of the call: pc = "panicked".              *)
(***************************************************************************)
EXTENDS Integers, Sequences, FiniteSets

VARIABLES
    \* ---- genetic algorithm ----
    population,   \* &[I]: the fitness of each individual, in order
    call,         \* the public function being executed: "none", "select", "evolve"
    pc,           \* position inside that call
    slot,         \* evolve: the output slot (0-based, as in 0..population.len())
    parents,      \* evolve: the individuals selected for the current slot
    children,     \* evolve: the output Vec<I> collected so far
    steps,        \* evolve: the steps executed in this call, as <<slot, step>>
    draws,        \* values drawn from rng (&mut dyn RngCore) so far
    callDraws,    \* values drawn from rng since the current call began
    sel,          \* outcome of the latest RouletteWheelSelection::select
    panicMsg,     \* message of the panic that ended the call, "" if none
    \* ---- neural network: random construction ----
    rng,          \* the rng (&mut dyn RngCore) as the latest constructor left it
    built,        \* what the latest call of a random constructor produced
    prev,         \* what the call before it produced
    \* ---- neural network: propagation ----
    network,      \* Network.layers
    inputs,       \* the inputs given to Network::propagate
    cur,          \* the fold's accumulator
    layerIdx,     \* the layers the fold has applied
    ppc,          \* position inside Network::propagate
    output,       \* what Network::propagate returned
    \* ---- crossover ----
    parent_a,     \* &Chromosome
    parent_b,     \* &Chromosome
    child,        \* the Chromosome crossover returned
    xpc           \* "idle", "returned" or "panicked"

varsGA == <<population, call, pc, slot, parents, children, steps, draws,
            callDraws, sel, panicMsg>>

varsRandom == <<rng, built, prev>>

varsPropagate == <<network, inputs, cur, layerIdx, ppc, output>>

varsCrossover == <<parent_a, parent_b, child, xpc>>

vars == <<varsGA, varsRandom, varsPropagate, varsCrossover>>

\* ------------------------------------------------------------------ bounds
MaxPop == 3
MaxFitness == 2
MaxDraws == 3
MaxSeed == 1
MaxNeurons == 2
MaxTopology == 3
Scale == 8
MaxGenes == 2
MaxGene == 2

\* ----------------------------------------------------------------- helpers
RECURSIVE SumSeq(_)
SumSeq(s) == IF s = <<>> THEN 0 ELSE s[1] + SumSeq(Tail(s))

SeqsUpTo(S, n) == UNION {[1..k -> S] : k \in 0..n}

\* ------------------------------------------ RouletteWheelSelection::select
Fitness == -1..MaxFitness

\* rand's WeightedIndex::new over the weights |individual| individual.fitness():
\* NoItem for no weights, InvalidWeight for a weight that is not >= 0,
\* AllWeightsZero for a zero total.
WeightedIndexNew(weights) ==
    IF Len(weights) = 0 THEN "NoItem"
    ELSE IF \E i \in 1..Len(weights) : ~(weights[i] >= 0) THEN "InvalidWeight"
    ELSE IF SumSeq(weights) = 0 THEN "AllWeightsZero"
    ELSE "Ok"

\* The cumulative weights WeightedIndex keeps: the running totals before the
\* last weight is added.
CumulativeWeights(weights) ==
    [i \in 1..(Len(weights) - 1) |-> SumSeq(SubSeq(weights, 1, i))]

\* WeightedIndex::sample: chosen is the value drawn in [0, total); the index
\* is the partition point of the cumulative weights that are <= chosen.
SampleIndex(weights, chosen) ==
    1 + Cardinality({j \in 1..(Len(weights) - 1) :
                        CumulativeWeights(weights)[j] <= chosen})

NoSelection == [kind |-> "none", idx |-> 0, drawn |-> 0]

\* A plausible defect: a zero total falls back to a uniform choice.
RouletteWheelSelectUniformFallback(pop) ==
    IF WeightedIndexNew(pop) = "AllWeightsZero"
    THEN {[kind |-> "ok", idx |-> i, drawn |-> 1] : i \in 1..Len(pop)}
    ELSE IF WeightedIndexNew(pop) = "Ok"
    THEN {[kind |-> "ok", idx |-> SampleIndex(pop, c), drawn |-> 1] :
             c \in 0..(SumSeq(pop) - 1)}
    ELSE {[kind |-> "panic", idx |-> 0, drawn |-> 0]}

\* A plausible defect: the partition point is taken one place too early, so
\* the individual before the drawn one is returned.
RouletteWheelSelectOffByOne(pop) ==
    IF WeightedIndexNew(pop) = "Ok"
    THEN {[kind |-> "ok",
           idx |-> IF SampleIndex(pop, c) > 1 THEN SampleIndex(pop, c) - 1 ELSE 1,
           drawn |-> 1] : c \in 0..(SumSeq(pop) - 1)}
    ELSE {[kind |-> "panic", idx |-> 0, drawn |-> 0]}

\* population.choose_weighted(rng, |i| i.fitness()).expect("Empty population"):
\* the set of outcomes over every value the rng can produce.  An Err of
\* choose_weighted is a panic and draws nothing; an Ok draws one value.
RouletteWheelSelect(pop) ==
    IF WeightedIndexNew(pop) = "Ok"
    THEN {[kind |-> "ok", idx |-> SampleIndex(pop, c), drawn |-> 1] :
             c \in 0..(SumSeq(pop) - 1)}
    ELSE {[kind |-> "panic", idx |-> 0, drawn |-> 0]}

\* ------------------------------------------------------ the random source
\* The rng handed to the constructors: a seed (ChaCha8Rng::from_seed in the
\* tests) and the number of values drawn from it since.
SeedRng(seed) == [seed |-> seed, pos |-> 0]

\* The value of the pos-th rng.gen_range(-1.0..=1.0) after seeding: a fixed
\* function of the seed and the position, in -Scale..Scale (fixed point for
\* [-1, 1]).
Gen(seed, pos) == ((7 * seed + 5 * pos) % (2 * Scale + 1)) - Scale

\* rng.gen_range(-1.0..=1.0): the value, and the rng advanced by one draw.
GenRange(r) == [value |-> Gen(r.seed, r.pos), rng |-> [r EXCEPT !.pos = @ + 1]]

\* (0..n).map(|_| rng.gen_range(-1.0..=1.0)).collect()
RECURSIVE GenRangeVec(_, _)
GenRangeVec(r, n) ==
    IF n = 0 THEN [values |-> <<>>, rng |-> r]
    ELSE LET head == GenRangeVec(r, n - 1)
             d == GenRange(head.rng)
         IN [values |-> Append(head.values, d.value), rng |-> d.rng]

\* ------------------------------------------------------------------ Neuron
\* A plausible defect: the weights are drawn before the bias.
NeuronRandomWeightsFirst(r, output_size) ==
    LET w == GenRangeVec(r, output_size)
        b == GenRange(w.rng)
    IN [neuron |-> [bias |-> b.value, weights |-> w.values], rng |-> b.rng]

\* Neuron::random: the bias is drawn first, then output_size weights.
NeuronRandom(r, output_size) ==
    LET b == GenRange(r)
        w == GenRangeVec(b.rng, output_size)
    IN [neuron |-> [bias |-> b.value, weights |-> w.values], rng |-> w.rng]

Min(a, b) == IF a <= b THEN a ELSE b

\* f32::max(self, 0.0)
Max0(x) == IF x >= 0 THEN x ELSE 0

\* inputs.iter().zip(&self.weights): pairs up to the shorter of the two.
Zip(xs, ws) == [i \in 1..Min(Len(xs), Len(ws)) |-> <<xs[i], ws[i]>>]

\* .map(|(input, weight)| input * weight).sum::<f32>()
RECURSIVE SumProducts(_)
SumProducts(pairs) ==
    IF pairs = <<>> THEN 0
    ELSE pairs[1][1] * pairs[1][2] + SumProducts(Tail(pairs))

\* A plausible defect: the activation (.max(0.0)) is left out.
NeuronPropagateNoRelu(neuron, xs) ==
    neuron.bias + SumProducts(Zip(xs, neuron.weights))

\* Neuron::propagate
NeuronPropagate(neuron, xs) ==
    Max0(neuron.bias + SumProducts(Zip(xs, neuron.weights)))

\* ------------------------------------------------------------------- Layer
RECURSIVE LayerRandomNeurons(_, _, _)
LayerRandomNeurons(r, input_neurons, k) ==
    IF k = 0 THEN [neurons |-> <<>>, rng |-> r]
    ELSE LET head == LayerRandomNeurons(r, input_neurons, k - 1)
             n == NeuronRandom(head.rng, input_neurons)
         IN [neurons |-> Append(head.neurons, n.neuron), rng |-> n.rng]

\* A plausible defect: the two sizes change places.
LayerRandomSwapped(r, input_neurons, output_neurons) ==
    LET ns == LayerRandomNeurons(r, output_neurons, input_neurons)
    IN [layer |-> [neurons |-> ns.neurons], rng |-> ns.rng]

\* Layer::random: output_neurons neurons, each over input_neurons inputs.
LayerRandom(r, input_neurons, output_neurons) ==
    LET ns == LayerRandomNeurons(r, input_neurons, output_neurons)
    IN [layer |-> [neurons |-> ns.neurons], rng |-> ns.rng]

\* Layer::propagate: every neuron, in order, on the same inputs.
LayerPropagate(layer, xs) ==
    [j \in 1..Len(layer.neurons) |-> NeuronPropagate(layer.neurons[j], xs)]

\* ----------------------------------------------------------------- Network
\* layers.windows(2).map(|layers| Layer::random(rng, layers[0].neurons,
\* layers[1].neurons)).collect(), over the first k windows.
RECURSIVE NetworkRandomLayers(_, _, _)
NetworkRandomLayers(r, topology, k) ==
    IF k = 0 THEN [layers |-> <<>>, rng |-> r]
    ELSE LET head == NetworkRandomLayers(r, topology, k - 1)
             l == LayerRandom(head.rng, topology[k], topology[k + 1])
         IN [layers |-> Append(head.layers, l.layer), rng |-> l.rng]

\* Network::random: assert!(layers.len() > 1), then one layer per window.
NetworkRandom(r, topology) ==
    IF ~(Len(topology) > 1)
    THEN [panic |-> TRUE, layers |-> <<>>, rng |-> r]
    ELSE LET ls == NetworkRandomLayers(r, topology, Len(topology) - 1)
         IN [panic |-> FALSE, layers |-> ls.layers, rng |-> ls.rng]

Seeds == 0..MaxSeed
NeuronCounts == 0..MaxNeurons
Topologies == UNION {[1..k -> NeuronCounts] : k \in 1..MaxTopology}
InputValues == {-1, 2}
InputVectors == SeqsUpTo(InputValues, MaxNeurons + 1)

NoBuilt == [kind |-> "none", seed |-> 0, topo |-> <<>>, value |-> <<>>]

\* -------------------------------------------------------------- Chromosome
\* Chromosome { genes: Vec<f32> }
\* impl FromIterator<f32> for Chromosome: the genes are the items, in order.
ChromosomeFromIter(items) == [genes |-> items]

\* Chromosome::len
ChromosomeLen(c) == Len(c.genes)

\* impl Index<usize> for Chromosome: &self.genes[index], index from 0.
ChromosomeIndex(c, index) == c.genes[index + 1]

\* A defect the design rules out: the child's gene is a blend of the parents'.
UniformCrossoverBlend(a, b, coins) ==
    IF ChromosomeLen(a) # ChromosomeLen(b)
    THEN [panic |-> TRUE, child |-> ChromosomeFromIter(<<>>)]
    ELSE [panic |-> FALSE,
          child |-> ChromosomeFromIter(
              [i \in 1..ChromosomeLen(a) |->
                  ChromosomeIndex(a, i - 1) + ChromosomeIndex(b, i - 1)])]

\* UniformCrossover::crossover.  The repository holds only the header
\* "impl CrossoverMethod for UniformCrossover" (line 120), without a body; this
\* is the design's contract: parents of different lengths fail
\* (ChromosomeLengthMismatch); otherwise each position takes parent A's gene
\* or parent B's by a fair coin, coins[i] being the coin of position i.
UniformCrossover(a, b, coins) ==
    IF ChromosomeLen(a) # ChromosomeLen(b)
    THEN [panic |-> TRUE, child |-> ChromosomeFromIter(<<>>)]
    ELSE [panic |-> FALSE,
          child |-> ChromosomeFromIter(
              [i \in 1..ChromosomeLen(a) |->
                  IF coins[i] THEN ChromosomeIndex(a, i - 1)
                              ELSE ChromosomeIndex(b, i - 1)])]

Genes == 0..MaxGene
Chromosomes == {ChromosomeFromIter(g) : g \in SeqsUpTo(Genes, MaxGenes)}

\* ------------------------------------------------------------- idle parts
IdleGA ==
    /\ population = <<>>
    /\ call = "none"
    /\ pc = "idle"
    /\ slot = 0
    /\ parents = [a |-> 0, b |-> 0]
    /\ children = <<>>
    /\ steps = <<>>
    /\ draws = 0
    /\ callDraws = 0
    /\ sel = NoSelection
    /\ panicMsg = ""

IdleRandom ==
    /\ rng = SeedRng(0)
    /\ built = NoBuilt
    /\ prev = NoBuilt

IdlePropagate ==
    /\ network = <<>>
    /\ inputs = <<>>
    /\ cur = <<>>
    /\ layerIdx = 0
    /\ ppc = "idle"
    /\ output = <<>>

IdleCrossover ==
    /\ parent_a = ChromosomeFromIter(<<>>)
    /\ parent_b = ChromosomeFromIter(<<>>)
    /\ child = ChromosomeFromIter(<<>>)
    /\ xpc = "idle"

\* ------------------------------------------------ GeneticAlgorithm::evolve
NoParents == [a |-> 0, b |-> 0]

InitGA ==
    /\ population \in SeqsUpTo(Fitness, MaxPop)
    /\ call = "none"
    /\ pc = "idle"
    /\ slot = 0
    /\ parents = NoParents
    /\ children = <<>>
    /\ steps = <<>>
    /\ draws = 0
    /\ callDraws = 0
    /\ sel = NoSelection
    /\ panicMsg = ""
    /\ IdleRandom
    /\ IdlePropagate
    /\ IdleCrossover

\* A direct call of SelectionMethod::select, as the test roulette_selection
\* makes 1000 times.
Select ==
    /\ pc = "idle"
    /\ draws < MaxDraws
    /\ \E r \in RouletteWheelSelect(population) :
          /\ sel' = r
          /\ call' = "select"
          /\ draws' = draws + r.drawn
          /\ callDraws' = r.drawn
          /\ pc' = IF r.kind = "ok" THEN "idle" ELSE "panicked"
          /\ panicMsg' = IF r.kind = "ok" THEN "" ELSE "Empty population"
    /\ UNCHANGED <<population, slot, parents, children, steps>>
    /\ UNCHANGED <<varsRandom, varsPropagate, varsCrossover>>

\* evolve, line 41: assert!(!population.is_empty()), then the first
\* iteration of (0..population.len()).map(..).collect().
EvolveBegin ==
    /\ pc = "idle"
    /\ call' = "evolve"
    /\ callDraws' = 0
    /\ steps' = <<>>
    /\ children' = <<>>
    /\ parents' = NoParents
    /\ slot' = 0
    /\ sel' = NoSelection
    /\ IF Len(population) = 0
       THEN /\ pc' = "panicked"
            /\ panicMsg' = "assertion failed: !population.is_empty()"
       ELSE /\ pc' = "selectA"
            /\ panicMsg' = ""
    /\ UNCHANGED <<population, draws>>
    /\ UNCHANGED <<varsRandom, varsPropagate, varsCrossover>>

\* evolve, line 45: let parent_a = self.selection_method.select(rng, population)
EvolveSelectParentA ==
    /\ call = "evolve"
    /\ pc = "selectA"
    /\ \E r \in RouletteWheelSelect(population) :
          /\ sel' = r
          /\ draws' = draws + r.drawn
          /\ callDraws' = callDraws + r.drawn
          /\ IF r.kind = "ok"
             THEN /\ parents' = [parents EXCEPT !.a = r.idx]
                  /\ steps' = Append(steps, <<slot, "select_a">>)
                  /\ pc' = "selectB"
                  /\ panicMsg' = ""
             ELSE /\ parents' = parents
                  /\ steps' = steps
                  /\ pc' = "panicked"
                  /\ panicMsg' = "Empty population"
    /\ UNCHANGED <<population, call, slot, children>>
    /\ UNCHANGED <<varsRandom, varsPropagate, varsCrossover>>

\* evolve, line 46: let parent_b = self.selection_method.select(rng, population)
EvolveSelectParentB ==
    /\ call = "evolve"
    /\ pc = "selectB"
    /\ \E r \in RouletteWheelSelect(population) :
          /\ sel' = r
          /\ draws' = draws + r.drawn
          /\ callDraws' = callDraws + r.drawn
          /\ IF r.kind = "ok"
             THEN /\ parents' = [parents EXCEPT !.b = r.idx]
                  /\ steps' = Append(steps, <<slot, "select_b">>)
                  /\ pc' = "todo"
                  /\ panicMsg' = ""
             ELSE /\ parents' = parents
                  /\ steps' = steps
                  /\ pc' = "panicked"
                  /\ panicMsg' = "Empty population"
    /\ UNCHANGED <<population, call, slot, children>>
    /\ UNCHANGED <<varsRandom, varsPropagate, varsCrossover>>

\* evolve, lines 47-50: the crossover, the mutation and the conversion back
\* into an Individual are comments; the closure's body ends in todo!().
EvolveTodo ==
    /\ call = "evolve"
    /\ pc = "todo"
    /\ pc' = "panicked"
    /\ panicMsg' = "not yet implemented"
    /\ UNCHANGED <<population, call, slot, parents, children, steps, draws,
                   callDraws, sel>>
    /\ UNCHANGED <<varsRandom, varsPropagate, varsCrossover>>

NextGA == Select \/ EvolveBegin \/ EvolveSelectParentA \/ EvolveSelectParentB
             \/ EvolveTodo

SpecGA == InitGA /\ [][NextGA]_vars


\* ------------------------------------------- random construction, as called
\* Each call is made on an rng freshly seeded with the run's seed, as in the
\* tests random::neuron, random::layer and random::network (all three seed
\* with Default::default()); two calls are kept to compare them.
NetworkRandomCall ==
    /\ built.kind # "panic"
    /\ prev = NoBuilt
    /\ \E topology \in Topologies :
          LET r == NetworkRandom(SeedRng(rng.seed), topology)
          IN /\ rng' = r.rng
             /\ built' = [kind |-> IF r.panic THEN "panic" ELSE "network",
                          seed |-> rng.seed, topo |-> topology, value |-> r.layers]
    /\ prev' = built
    /\ UNCHANGED <<varsGA, varsPropagate, varsCrossover>>

LayerRandomCall ==
    /\ built.kind # "panic"
    /\ prev = NoBuilt
    /\ \E input_neurons \in NeuronCounts, output_neurons \in NeuronCounts :
          LET r == LayerRandom(SeedRng(rng.seed), input_neurons, output_neurons)
          IN /\ rng' = r.rng
             /\ built' = [kind |-> "layer", seed |-> rng.seed,
                          topo |-> <<input_neurons, output_neurons>>,
                          value |-> r.layer]
    /\ prev' = built
    /\ UNCHANGED <<varsGA, varsPropagate, varsCrossover>>

NeuronRandomCall ==
    /\ built.kind # "panic"
    /\ prev = NoBuilt
    /\ \E output_size \in NeuronCounts :
          LET r == NeuronRandom(SeedRng(rng.seed), output_size)
          IN /\ rng' = r.rng
             /\ built' = [kind |-> "neuron", seed |-> rng.seed,
                          topo |-> <<output_size>>, value |-> r.neuron]
    /\ prev' = built
    /\ UNCHANGED <<varsGA, varsPropagate, varsCrossover>>

InitRandom ==
    /\ IdleGA
    /\ IdlePropagate
    /\ IdleCrossover
    /\ \E seed \in Seeds : rng = SeedRng(seed)
    /\ built = NoBuilt
    /\ prev = NoBuilt

NextRandom == NetworkRandomCall \/ LayerRandomCall \/ NeuronRandomCall

SpecRandom == InitRandom /\ [][NextRandom]_vars

\* ------------------------------------------------------ Network::propagate
\* The networks propagate is called on: those Network::random builds.
InitPropagate ==
    /\ IdleGA
    /\ IdleRandom
    /\ IdleCrossover
    /\ \E seed \in Seeds, topology \in Topologies :
          /\ Len(topology) > 1
          /\ network = NetworkRandom(SeedRng(seed), topology).layers
    /\ inputs = <<>>
    /\ cur = <<>>
    /\ layerIdx = 0
    /\ ppc = "idle"
    /\ output = <<>>

\* Network::propagate is entered: the fold starts from the inputs.
PropagateBegin ==
    /\ ppc = "idle"
    /\ \E xs \in InputVectors :
          /\ inputs' = xs
          /\ cur' = xs
    /\ layerIdx' = 0
    /\ ppc' = "fold"
    /\ UNCHANGED <<network, output, varsGA, varsRandom,
                   varsCrossover>>

\* One step of the fold: |inputs, layer| layer.propagate(inputs).
PropagateLayer ==
    /\ ppc = "fold"
    /\ layerIdx < Len(network)
    /\ cur' = LayerPropagate(network[layerIdx + 1], cur)
    /\ layerIdx' = layerIdx + 1
    /\ UNCHANGED <<network, inputs, ppc, output, varsGA, varsRandom,
                   varsCrossover>>

\* The fold is over: its accumulator is the result.
PropagateReturn ==
    /\ ppc = "fold"
    /\ layerIdx = Len(network)
    /\ output' = cur
    /\ ppc' = "returned"
    /\ UNCHANGED <<network, inputs, cur, layerIdx, varsGA, varsRandom,
                   varsCrossover>>

NextPropagate == PropagateBegin \/ PropagateLayer \/ PropagateReturn

SpecPropagate == InitPropagate /\ [][NextPropagate]_vars

\* --------------------------------------------------------------- crossover
InitCrossover ==
    /\ IdleGA
    /\ IdleRandom
    /\ IdlePropagate
    /\ parent_a \in Chromosomes
    /\ parent_b \in Chromosomes
    /\ child = ChromosomeFromIter(<<>>)
    /\ xpc = "idle"

\* One call of CrossoverMethod::crossover(rng, parent_a, parent_b), over
\* every sequence of coins the rng can give.
Crossover ==
    /\ xpc = "idle"
    /\ \E coins \in [1..Min(ChromosomeLen(parent_a), ChromosomeLen(parent_b))
                        -> BOOLEAN] :
          LET r == UniformCrossover(parent_a, parent_b, coins)
          IN /\ child' = r.child
             /\ xpc' = IF r.panic THEN "panicked" ELSE "returned"
    /\ UNCHANGED <<parent_a, parent_b, varsGA, varsRandom, varsPropagate>>

NextCrossover == Crossover

SpecCrossover == InitCrossover /\ [][NextCrossover]_vars

\* ------------------------------------------------ claims: genetic algorithm
EvolveEnded == call = "evolve" /\ pc \in {"returned", "panicked"}

\* The five steps the design gives every output slot, in order.
SlotSteps(s) == <<(<<s, "select_a">>), (<<s, "select_b">>), (<<s, "crossover">>),
                 (<<s, "mutation">>), (<<s, "from_chromosome">>)>>

RECURSIVE ExpectedSteps(_)
ExpectedSteps(n) ==
    IF n = 0 THEN <<>> ELSE ExpectedSteps(n - 1) \o SlotSteps(n - 1)

\* C1: evolve on a population of size N >= 1 returns a population of size
\* exactly N, and on a population of size 0 it fails.  Stated for the
\* populations selection accepts (no negative fitness, a positive total), which
\* only favours the claim.
C1_EvolveReturnsSameSize ==
    EvolveEnded =>
        IF Len(population) = 0
        THEN pc = "panicked"
        ELSE WeightedIndexNew(population) = "Ok" =>
                (pc = "returned" /\ Len(children) = Len(population))

\* C2: when an evolve call on a selectable population has ended, every output
\* slot went through select A, select B, crossover, mutation, from_chromosome,
\* in this order, one slot after the other.
C2_SlotStepsInOrder ==
    (EvolveEnded /\ WeightedIndexNew(population) = "Ok") =>
        steps = ExpectedSteps(Len(population))

\* C7: whenever an evolve call fails, no value has been drawn from the random
\* source and no selection has been performed in that call.
C7_EvolveFailsBeforeStarting ==
    (call = "evolve" /\ pc = "panicked") => (callDraws = 0 /\ steps = <<>>)

AllZeroFitness(pop) == Len(pop) > 0 /\ \A i \in 1..Len(pop) : pop[i] = 0

\* C5: select on a non-empty population whose fitness values are all zero
\* fails; it never returns an individual.
C5_AllZeroFitnessFails ==
    (AllZeroFitness(population) /\ sel.kind # "none") =>
        (sel.kind = "panic" /\ pc = "panicked" /\ sel.drawn = 0)

C5_Witness ==
    /\ Len(population) >= 2
    /\ AllZeroFitness(population)
    /\ call = "select"
    /\ sel.kind = "panic"

\* C10: whenever select returns, the returned individual is an element of the
\* population with strictly positive fitness; a population containing a
\* negative fitness makes the call fail.
C10_SelectedHasPositiveFitness ==
    /\ sel.kind = "ok" =>
          (sel.idx \in 1..Len(population) /\ population[sel.idx] > 0)
    /\ ((\E i \in 1..Len(population) : population[i] < 0) /\ sel.kind # "none")
          => sel.kind = "panic"

C10_Witness ==
    /\ sel.kind = "ok"
    /\ \E i \in 1..Len(population) : population[i] = 0
    /\ \E i \in 1..Len(population) : i # sel.idx /\ population[i] > 0


\* ------------------------------------------- claims: random construction
\* C6: Network::random given a topology of k >= 2 entries builds exactly k-1
\* layers; layer i has topology[i+1] neurons and every neuron in it has
\* exactly topology[i] weights.
C6_NetworkShape ==
    (built.kind \in {"network", "panic"} /\ Len(built.topo) >= 2) =>
        /\ built.kind = "network"
        /\ Len(built.value) = Len(built.topo) - 1
        /\ \A i \in 1..Len(built.value) :
              /\ Len(built.value[i].neurons) = built.topo[i + 1]
              /\ \A j \in 1..Len(built.value[i].neurons) :
                    Len(built.value[i].neurons[j].weights) = built.topo[i]

C6_Witness ==
    /\ built.kind = "network"
    /\ Len(built.topo) = 3
    /\ built.topo[1] > built.topo[2]
    /\ built.topo[3] > built.topo[2]
    /\ built.topo[2] > 0

\* The neuron whose bias is the draw at position off and whose n weights are
\* the n draws after it.
ExpectedNeuron(seed, off, n) ==
    [bias |-> Gen(seed, off), weights |-> [i \in 1..n |-> Gen(seed, off + i)]]

\* The draws the layers before layer l consume.
RECURSIVE LayerOffset(_, _)
LayerOffset(topology, l) ==
    IF l = 1 THEN 0
    ELSE LayerOffset(topology, l - 1)
            + (1 + topology[l - 1]) * topology[l]

DrawOrder(b) ==
    /\ b.kind = "network" =>
          \A l \in 1..(Len(b.topo) - 1) : \A j \in 1..b.topo[l + 1] :
              b.value[l].neurons[j] =
                  ExpectedNeuron(b.seed,
                                 LayerOffset(b.topo, l) + (j - 1) * (1 + b.topo[l]),
                                 b.topo[l])
    /\ b.kind = "layer" =>
          \A j \in 1..b.topo[2] :
              b.value.neurons[j] =
                  ExpectedNeuron(b.seed, (j - 1) * (1 + b.topo[1]), b.topo[1])
    /\ b.kind = "neuron" => b.value = ExpectedNeuron(b.seed, 0, b.topo[1])

HasFirstNeuron(b) ==
    \/ b.kind = "neuron"
    \/ b.kind \in {"network", "layer"} /\ b.topo[2] > 0

FirstNeuron(b) ==
    IF b.kind = "network" THEN b.value[1].neurons[1]
    ELSE IF b.kind = "layer" THEN b.value.neurons[1]
    ELSE b.value

\* C9: random construction draws layer by layer, neuron by neuron, the bias
\* first and then the weights in order; for the same seed and input count the
\* first neuron of Network::random, of Layer::random and Neuron::random are
\* identical; two Network::random calls with the same seed and topology give
\* identical networks.
C9_DeterministicDrawOrder ==
    /\ DrawOrder(built)
    /\ built.kind = "network" =>
          rng = [seed |-> built.seed,
                 pos |-> LayerOffset(built.topo, Len(built.topo))]
    /\ (HasFirstNeuron(prev) /\ HasFirstNeuron(built)
          /\ prev.seed = built.seed /\ prev.topo[1] = built.topo[1])
          => FirstNeuron(prev) = FirstNeuron(built)
    /\ (prev.kind = "network" /\ built.kind = "network"
          /\ prev.seed = built.seed /\ prev.topo = built.topo)
          => prev.value = built.value

C9_Witness ==
    /\ prev.kind = "network"
    /\ built.kind = "network"
    /\ prev.seed = built.seed
    /\ prev.topo = built.topo
    /\ Len(built.topo) = 3
    /\ \A i \in 1..3 : built.topo[i] >= 2
    /\ FirstNeuron(built) = NeuronRandom(SeedRng(built.seed), built.topo[1]).neuron
    /\ FirstNeuron(built) # NeuronRandom(SeedRng(built.seed + 1), built.topo[1]).neuron

\* ---------------------------------------------------- claims: propagation
\* Whether the inputs have the length the first layer's neurons take.
MatchesInput(net, xs) ==
    \A j \in 1..Len(net[1].neurons) : Len(net[1].neurons[j].weights) = Len(xs)

\* C3: propagate called with an input vector whose length differs from the
\* weight count of the receiving layer's neurons fails; it never produces an
\* output.
C3_MismatchedInputFails ==
    (ppc = "returned" /\ Len(network[1].neurons) > 0) =>
        MatchesInput(network, inputs)

\* bias + sum over i of weight_i * input_i, by position.
RECURSIVE WeightedSum(_, _, _)
WeightedSum(ws, xs, n) ==
    IF n = 0 THEN 0 ELSE WeightedSum(ws, xs, n - 1) + ws[n] * xs[n]

RefNeuron(neuron, xs) ==
    LET t == neuron.bias + WeightedSum(neuron.weights, xs, Len(neuron.weights))
    IN IF t > 0 THEN t ELSE 0

RECURSIVE RefLayers(_, _, _)
RefLayers(net, xs, k) ==
    IF k = 0 THEN xs
    ELSE [j \in 1..Len(net[k].neurons) |->
             RefNeuron(net[k].neurons[j], RefLayers(net, xs, k - 1))]

\* C8: a neuron's output is max(0, bias + sum of weight_i * input_i), never
\* negative; a layer's output is its neurons' outputs in order, as many as it
\* has neurons; Network::propagate applies the layers in order and returns the
\* last layer's output.
C8_ForwardPropagation ==
    /\ (ppc # "idle" /\ layerIdx >= 1) =>
          /\ Len(cur) = Len(network[layerIdx].neurons)
          /\ \A j \in 1..Len(cur) : cur[j] >= 0
    /\ (ppc # "idle" /\ MatchesInput(network, inputs)) =>
          cur = RefLayers(network, inputs, layerIdx)
    /\ ppc = "returned" => (output = cur /\ layerIdx = Len(network))

C8_Witness ==
    /\ ppc = "returned"
    /\ Len(network) = 2
    /\ Len(inputs) = 2
    /\ MatchesInput(network, inputs)
    /\ Len(network[1].neurons) = 2
    /\ \E j \in 1..2 :
          network[1].neurons[j].bias
             + WeightedSum(network[1].neurons[j].weights, inputs, 2) < 0
    /\ \E j \in 1..Len(output) : output[j] > 0


\* ------------------------------------------------------ claims: crossover
\* C4: crossover on two parents of equal length L returns a child of length L
\* whose gene at every position is parent A's or parent B's gene there.
C4_CrossoverPurity ==
    (xpc # "idle" /\ ChromosomeLen(parent_a) = ChromosomeLen(parent_b)) =>
        /\ xpc = "returned"
        /\ ChromosomeLen(child) = ChromosomeLen(parent_a)
        /\ \A i \in 0..(ChromosomeLen(child) - 1) :
              \/ ChromosomeIndex(child, i) = ChromosomeIndex(parent_a, i)
              \/ ChromosomeIndex(child, i) = ChromosomeIndex(parent_b, i)

C4_Witness ==
    /\ xpc = "returned"
    /\ ChromosomeLen(parent_a) = 2
    /\ \A i \in 0..1 : ChromosomeIndex(parent_a, i) # ChromosomeIndex(parent_b, i)
    /\ ChromosomeIndex(child, 0) = ChromosomeIndex(parent_a, 0)
    /\ ChromosomeIndex(child, 1) = ChromosomeIndex(parent_b, 1)

=============================================================================
